---- MODULE Spec2Model ----
(***************************************************************************)
(* The data pipeline of _project_gsheet.py: clean_data, filter_by_month,   *)
(* filter_data_by_categorical_value, calculate_total_expenses_per_column   *)
(* and the tool analyze_expenses_per_items_for_category_column that        *)
(* composes them.                                                          *)
(*                                                                         *)
(* A Python str is a sequence of one-character strings.  A Python list is  *)
(* an object of a heap, so that aliasing and in-place writes are visible:  *)
(* heap.rows[i] is the i-th row list ever allocated, heap.tables[j] the    *)
(* j-th table list (a sequence of row ids).                                *)
(* A float is exact: a number in units of 1/Scale, or nan.  The rounding  *)
(* of binary floating point is not modelled.                               *)
(***************************************************************************)
EXTENDS Integers, Sequences, FiniteSets, TLC

\* ---------------------------------------------------------------- bounds
\* Most data rows of the sheet.
MaxRows == 2
\* Most calls made one after the other on the same session.
MaxCalls == 2
\* Fractional digits an amount keeps.
FracDigits == 2

Scale == 10 ^ FracDigits

\* ---------------------------------------------------------- str methods
Max(a, b) == IF a >= b THEN a ELSE b
Min(a, b) == IF a <= b THEN a ELSE b

Digits == {"0", "1", "2", "3", "4", "5", "6", "7", "8", "9"}
DigitVal(c) == CASE c = "0" -> 0 [] c = "1" -> 1 [] c = "2" -> 2 [] c = "3" -> 3
                 [] c = "4" -> 4 [] c = "5" -> 5 [] c = "6" -> 6 [] c = "7" -> 7
                 [] c = "8" -> 8 [] c = "9" -> 9

\* str.isspace() on the characters the model uses.
IsSpace(c) == c \in {" ", "\t"}

\* s[a:b] of Python, a and b 0-based and clamped to the string.
Slice(s, a, b) ==
    LET lo == Min(a, Len(s))
        hi == Min(b, Len(s))
    IN  IF hi <= lo THEN <<>> ELSE SubSeq(s, lo + 1, hi)

RECURSIVE LStrip(_)
LStrip(s) == IF s # <<>> /\ IsSpace(Head(s)) THEN LStrip(Tail(s)) ELSE s

RECURSIVE RStrip(_)
RStrip(s) ==
    IF s # <<>> /\ IsSpace(s[Len(s)]) THEN RStrip(SubSeq(s, 1, Len(s) - 1)) ELSE s

\* str.strip()
Strip(s) == RStrip(LStrip(s))

StartsWith(s, old) == Len(s) >= Len(old) /\ SubSeq(s, 1, Len(old)) = old

\* str.replace(old, new), old non-empty: leftmost non-overlapping occurrences.
RECURSIVE Replace(_, _, _)
Replace(s, old, new) ==
    IF s = <<>> THEN <<>>
    ELSE IF StartsWith(s, old)
         THEN new \o Replace(SubSeq(s, Len(old) + 1, Len(s)), old, new)
         ELSE <<Head(s)>> \o Replace(Tail(s), old, new)

\* bool(cell) of a str cell.
Truthy(cell) == cell # <<>>

\* list.index(x): the first position of x, 1-based; 0 stands for ValueError.
RECURSIVE IndexFrom(_, _, _)
IndexFrom(row, x, i) ==
    IF i > Len(row) THEN 0
    ELSE IF row[i] = x THEN i ELSE IndexFrom(row, x, i + 1)

Index(row, x) == IndexFrom(row, x, 1)

\* ------------------------------------------------------------- float(str)
AllDigits(s) == \A i \in 1..Len(s) : s[i] \in Digits

RECURSIVE NatOf(_)
NatOf(s) == IF s = <<>> THEN 0 ELSE 10 * NatOf(SubSeq(s, 1, Len(s) - 1)) + DigitVal(s[Len(s)])

\* The value of the fraction digits f, in units of 1/Scale.
RECURSIVE FracOf(_, _)
FracOf(f, unit) ==
    IF f = <<>> THEN 0 ELSE DigitVal(Head(f)) * (unit \div 10) + FracOf(Tail(f), unit \div 10)

Unsigned(s) == IF s # <<>> /\ Head(s) \in {"-", "+"} THEN Tail(s) ELSE s

DotAt(s) == Index(s, ".")

IntPart(s) == IF DotAt(s) = 0 THEN s ELSE SubSeq(s, 1, DotAt(s) - 1)

FracPart(s) == IF DotAt(s) = 0 THEN <<>> ELSE SubSeq(s, DotAt(s) + 1, Len(s))

\* A float: a number of units of 1/Scale, or nan.
Num(v) == [nan |-> FALSE, val |-> v]
NaN == [nan |-> TRUE, val |-> 0]

\* a + b and a < b of floats: nan spreads, and compares false with everything.
Add(a, b) == IF a.nan \/ b.nan THEN NaN ELSE Num(a.val + b.val)
Less(a, b) == ~a.nan /\ ~b.nan /\ a.val < b.val

\* Digits, at most one point, one digit at least.
IsDecimal(u) ==
    /\ AllDigits(IntPart(u))
    /\ AllDigits(FracPart(u))
    /\ Len(IntPart(u)) + Len(FracPart(u)) > 0

\* "nan" in any case, which float() reads as well.
IsNanWord(u) ==
    /\ Len(u) = 3
    /\ u[1] \in {"n", "N"} /\ u[2] \in {"a", "A"} /\ u[3] \in {"n", "N"}

\* Whether float(s) returns rather than raises ValueError, for the strings the
\* cells of the model can hold: a sign, then a decimal or "nan".  (No cell of
\* the model spells an exponent, an underscore or "inf".)
FloatOk(s) ==
    LET u == Unsigned(Strip(s))
    IN  IsDecimal(u) \/ IsNanWord(u)

\* float(s) where FloatOk(s).
FloatVal(s) ==
    LET t == Strip(s)
        u == Unsigned(t)
        m == NatOf(IntPart(u)) * Scale + FracOf(FracPart(u), Scale)
    IN  IF IsNanWord(u) THEN NaN
        ELSE IF Head(t) = "-" THEN Num(0 - m) ELSE Num(m)

\* ------------------------------------------------------ program constants
Data == <<"D", "a", "t", "a">>
Categoria == <<"C", "a", "t", "e", "g", "o", "r", "i", "a">>
Item == <<"I", "t", "e", "m">>
Valor_total == <<"V", "a", "l", "o", "r", "_", "t", "o", "t", "a", "l">>
NA == <<"N", "/", "A">>
Year == <<"2", "0", "2", "5">>
Currency == <<"R", "$">>

\* ------------------------------------------------------------------ heap
\* The lists a table is made of.  A table id indexes heap.tables, a row id
\* heap.rows; a cell is an immutable str.
EmptyHeap == [rows |-> <<>>, tables |-> <<>>]

\* The row lists of table t, by value.
Content(h, t) == [i \in 1..Len(h.tables[t]) |-> h.rows[h.tables[t][i]]]

\* A new table whose rows are new lists holding `rows`.
AllocTable(h, rows) ==
    [rows   |-> h.rows \o rows,
     tables |-> Append(h.tables, [i \in 1..Len(rows) |-> Len(h.rows) + i])]

\* A new table list over row lists that exist.
AllocList(h, ids) == [h EXCEPT !.tables = Append(h.tables, ids)]

\* row[idx] = cell, in place.
SetCell(h, rid, idx, cell) == [h EXCEPT !.rows[rid][idx] = cell]

\* What a call gives back: a table, a dict (its items in order), or an exception.
NoRet == [kind |-> "none", id |-> 0, items |-> <<>>, exc |-> ""]
TableRet(t) == [kind |-> "table", id |-> t, items |-> <<>>, exc |-> ""]
DictRet(items) == [kind |-> "dict", id |-> 0, items |-> items, exc |-> ""]
Raise(exc) == [kind |-> "error", id |-> 0, items |-> <<>>, exc |-> exc]

Outcome(h, r) == [heap |-> h, ret |-> r]

\* ------------------------------------------------------------ clean_data
\* any(str(cell).strip() for cell in row)
HasText(row) == \E i \in 1..Len(row) : Strip(row[i]) # <<>>

\* The row test without the strip: any(cell for cell in row).
KeepRowUnstripped(row) == row # <<>> /\ \E i \in 1..Len(row) : row[i] # <<>>

\* row and any(...)
KeepRow(row) == row # <<>> /\ HasText(row)

\* cell if cell else "N/A"
CleanCell(cell) == IF Truthy(cell) THEN cell ELSE NA

CleanRow(row) == [i \in 1..Len(row) |-> CleanCell(row[i])]

\* clean_data taking the first row for a header to leave out (data[1:]).
clean_data_after_header(h, t) ==
    LET staging == SelectSeq(SubSeq(h.tables[t], 2, Len(h.tables[t])),
                             LAMBDA rid : KeepRow(h.rows[rid]))
        trusted == [i \in 1..Len(staging) |-> CleanRow(h.rows[staging[i]])]
        h2      == AllocTable(h, trusted)
    IN  Outcome(h2, TableRet(Len(h2.tables)))

clean_data(h, t) ==
    LET staging == SelectSeq(h.tables[t], LAMBDA rid : KeepRow(h.rows[rid]))
        trusted == [i \in 1..Len(staging) |-> CleanRow(h.rows[staging[i]])]
        h2      == AllocTable(h, trusted)
    IN  Outcome(h2, TableRet(Len(h2.tables)))

\* ------------------------------------------------------- filter_by_month
\* The month test without the year test.
MonthMatchAnyYear(row, date_idx, month) ==
    /\ Len(row) >= date_idx
    /\ Slice(row[date_idx], 3, 5) = month

\* len(row) > date_idx and row[date_idx][3:5] == month and row[date_idx][6:10] == "2025"
MonthMatch(row, date_idx, month) ==
    /\ Len(row) >= date_idx
    /\ Slice(row[date_idx], 3, 5) = month
    /\ Slice(row[date_idx], 6, 10) = Year

\* A filter that writes its result over the list it was given (data[:] = ...).
HeaderPlusInPlace(h, t, filtered) ==
    Outcome([h EXCEPT !.tables[t] = <<Head(h.tables[t])>> \o filtered], TableRet(t))

\* return [header] + filtered: a new list over the same row lists.
HeaderPlus(h, t, filtered) ==
    LET h2 == AllocList(h, <<Head(h.tables[t])>> \o filtered)
    IN  Outcome(h2, TableRet(Len(h2.tables)))

filter_by_month(h, t, month) ==
    IF h.tables[t] = <<>> THEN Outcome(h, Raise("IndexError"))
    ELSE LET header   == h.rows[h.tables[t][1]]
             date_idx == Index(header, Data)
         IN  IF date_idx = 0 THEN Outcome(h, Raise("ValueError"))
             ELSE HeaderPlus(h, t,
                      SelectSeq(Tail(h.tables[t]),
                                LAMBDA rid : MonthMatch(h.rows[rid], date_idx, month)))

\* ---------------------------------------- filter_data_by_categorical_value
\* The category test on the stripped cell.
CategoryMatchStripped(row, category_idx, categorical_value) ==
    /\ Len(row) >= category_idx
    /\ Strip(row[category_idx]) = categorical_value

\* len(row) > category_idx and row[category_idx] == categorical_value
CategoryMatch(row, category_idx, categorical_value) ==
    /\ Len(row) >= category_idx
    /\ row[category_idx] = categorical_value

filter_data_by_categorical_value(h, t, categorical_value) ==
    IF h.tables[t] = <<>> THEN Outcome(h, Raise("IndexError"))
    ELSE LET header       == h.rows[h.tables[t][1]]
             category_idx == Index(header, Categoria)
         IN  IF category_idx = 0 THEN Outcome(h, Raise("ValueError"))
             ELSE HeaderPlus(h, t,
                      SelectSeq(Tail(h.tables[t]),
                                LAMBDA rid : CategoryMatch(h.rows[rid], category_idx,
                                                           categorical_value)))

\* ------------------------------------- calculate_total_expenses_per_column
\* .replace(" ", "").replace("R$", "").replace(".", "").replace(",", ".").strip()
CleanAmount(cell) ==
    Strip(Replace(Replace(Replace(Replace(cell, <<" ">>, <<>>), Currency, <<>>),
                          <<".">>, <<>>), <<",">>, <<".">>))

\* try: float(...) except ValueError: 0.0
AmountOf(cleaned) == IF FloatOk(cleaned) THEN FloatVal(cleaned) ELSE Num(0)

\* The dict expenses_per_column: its items <<key, total>> in insertion order.
DictIndex(d, key) ==
    IF \E i \in 1..Len(d) : d[i][1] = key
    THEN CHOOSE i \in 1..Len(d) : d[i][1] = key
    ELSE 0

\* The update with = where the code has +=.
DictAddOverwrite(d, key, amount) ==
    LET i == DictIndex(d, key)
    IN  IF i = 0 THEN Append(d, <<key, amount>>)
        ELSE [d EXCEPT ![i] = <<key, amount>>]

\* d[key] += amount if key in d else d[key] = amount
DictAdd(d, key, amount) ==
    LET i == DictIndex(d, key)
    IN  IF i = 0 THEN Append(d, <<key, amount>>)
        ELSE [d EXCEPT ![i] = <<key, Add(d[i][2], amount)>>]

\* for row in data[1:], from the i-th row list of the table on.
RECURSIVE CalcLoop(_, _, _, _, _, _)
CalcLoop(h, ids, i, column_name_idx, amount_idx, d) ==
    IF i > Len(ids) THEN [heap |-> h, dict |-> d]
    ELSE LET rid == ids[i]
             row == h.rows[rid]
         IN  IF Len(row) >= Max(column_name_idx, amount_idx)
             THEN LET key     == row[column_name_idx]
                      cleaned == CleanAmount(row[amount_idx])
                      h2      == SetCell(h, rid, amount_idx, cleaned)
                  IN  CalcLoop(h2, ids, i + 1, column_name_idx, amount_idx,
                               DictAdd(d, key, AmountOf(cleaned)))
             ELSE CalcLoop(h, ids, i + 1, column_name_idx, amount_idx, d)

\* One step of a stable sort into descending order: item goes after every
\* item that is not smaller, so equal totals keep the order they came in.
InsertDesc(sorted, item) ==
    LET before == {i \in 1..Len(sorted) : ~Less(sorted[i][2], item[2])}
        n      == Cardinality(before)
    IN  SubSeq(sorted, 1, n) \o <<item>> \o SubSeq(sorted, n + 1, Len(sorted))

RECURSIVE SortedDesc(_)
SortedDesc(items) ==
    IF items = <<>> THEN <<>>
    ELSE InsertDesc(SortedDesc(SubSeq(items, 1, Len(items) - 1)), items[Len(items)])

\* The orders a sequence can be put in.
Orders(items) ==
    {[i \in 1..Len(items) |-> items[p[i]]] : p \in Permutations(1..Len(items))}

\* sorted(items, key=lambda item: item[1], reverse=True): what it may give.
\* The sort is stable where < is a total order of the keys; with a nan among
\* them it is not, and the order that comes out is whatever the sort's
\* comparisons happen to leave.
sorted_reverse(items) ==
    IF \E i \in 1..Len(items) : items[i][2].nan
    THEN Orders(items)
    ELSE {SortedDesc(items)}

\* The aggregation giving an empty mapping when a column is missing.
calculate_total_or_empty(h, t, column_name) ==
    IF h.tables[t] = <<>> THEN {Outcome(h, Raise("IndexError"))}
    ELSE LET header          == h.rows[h.tables[t][1]]
             column_name_idx == Index(header, column_name)
             amount_idx      == Index(header, Valor_total)
         IN  IF column_name_idx = 0 \/ amount_idx = 0 THEN {Outcome(h, DictRet(<<>>))}
             ELSE LET done == CalcLoop(h, h.tables[t], 2, column_name_idx, amount_idx, <<>>)
                  IN  {Outcome(done.heap, DictRet(items)) : items \in sorted_reverse(done.dict)}

\* What the call may give back and leave on the heap: one outcome, but for
\* the order of a mapping that holds a nan.
calculate_total_expenses_per_column(h, t, column_name) ==
    IF h.tables[t] = <<>> THEN {Outcome(h, Raise("IndexError"))}
    ELSE LET header          == h.rows[h.tables[t][1]]
             column_name_idx == Index(header, column_name)
             amount_idx      == Index(header, Valor_total)
         IN  IF column_name_idx = 0 \/ amount_idx = 0 THEN {Outcome(h, Raise("ValueError"))}
             ELSE LET done == CalcLoop(h, h.tables[t], 2, column_name_idx, amount_idx, <<>>)
                  IN  {Outcome(done.heap, DictRet(items)) : items \in sorted_reverse(done.dict)}

\* ---------------------------------------------------------------- the tool
\* google_sheets_tools.read_sheet(), decoded: the sheet as new lists.
read_sheet(h, rows) ==
    LET h2 == AllocTable(h, rows)
    IN  Outcome(h2, TableRet(Len(h2.tables)))

get_list_data_month_google_sheets(h, rows, month) ==
    LET raw_data     == read_sheet(h, rows)
        trusted_data == clean_data(raw_data.heap, raw_data.ret.id)
    IN  filter_by_month(trusted_data.heap, trusted_data.ret.id, month)

analyze_expenses_per_items_for_category_column(h, rows, month, categorical_value) ==
    LET list_of_list_data_expenses == get_list_data_month_google_sheets(h, rows, month)
    IN  IF list_of_list_data_expenses.ret.kind = "error" THEN {list_of_list_data_expenses}
        ELSE LET filtered_data ==
                     filter_data_by_categorical_value(list_of_list_data_expenses.heap,
                                                      list_of_list_data_expenses.ret.id,
                                                      categorical_value)
             IN  IF filtered_data.ret.kind = "error" THEN {filtered_data}
                 ELSE calculate_total_expenses_per_column(filtered_data.heap,
                                                          filtered_data.ret.id, Item)

\* ---------------------------------------------------------------- inputs
\* The header rows a sheet may have: the four columns; the date column with
\* an empty name; the category and amount columns missing.
Headers ==
    { <<Data, Categoria, Item, Valor_total>>,
      <<<<>>, Categoria, Item, Valor_total>>,
      <<Data, Item>> }

\* The data rows a sheet may have (Data, Categoria, Item, Valor_total).
RowPool ==
    { <<<<"0","5","/","0","9","/","2","0","2","5">>, <<"L","a","z","e","r">>,
        <<"C","i","n","e">>, <<"R","$"," ","1",".","2","3","4",",","5","6">>>>,
      <<<<"0","6","/","0","9","/","2","0","2","5">>, <<" ","L","a","z","e","r">>,
        <<"J","o","g","o">>, <<"R","$"," ","5","0",",","0","0">>>>,
      <<<<"0","7","/","0","9","/","2","0","2","4">>, <<"L","a","z","e","r">>,
        <<"S","h","o","w">>, <<"5","0">>>>,
      <<<<"0","1","/","1","0","/","2","0","2","5">>, <<>>,
        <<"L","u","z">>, <<>>>>,
      <<<<"0","5","/","0","9","/","2","0","2">>, <<"L","a","z","e","r">>,
        <<"J","o","g","o">>, <<"n","a","n">>>>,
      <<<<"0","8","/","0","9","/","2","0","2","5">>, <<"L","a","z","e","r">>>>,
      <<<<>>, <<" ">>, <<"\t">>>>,
      <<>> }

DataRows == UNION {[1..n -> RowPool] : n \in 0..MaxRows}

\* What read_sheet may give: nothing at all, or a header and data rows.
Sheets == {<<>>} \cup {<<hd>> \o rows : hd \in Headers, rows \in DataRows}

Months == {<<"0","9">>, <<"1","0">>}
CategoryValues == {<<"L","a","z","e","r">>, NA}
ColumnNames == {Categoria, Item}

\* ----------------------------------------------------------------- state
VARIABLES
    sheet,   \* the rows the spreadsheet holds, by value
    heap,    \* every list allocated so far
    data,    \* the table the caller holds and passes to the next call
    calls,   \* calls made so far
    op,      \* the last call: its name and arguments
    arg,     \* the table the last call was given (0: none)
    pre,     \* the heap as the last call found it
    ret,     \* what the last call gave back
    prev     \* the call before the last: its op, arg and ret

vars == <<sheet, heap, data, calls, op, arg, pre, ret, prev>>

Call(name, month, value, column) ==
    [name |-> name, month |-> month, value |-> value, column |-> column]

NoCall == Call("none", <<>>, <<>>, <<>>)

Init ==
    /\ sheet \in Sheets
    /\ heap = AllocTable(EmptyHeap, sheet)
    /\ data = 1
    /\ calls = 0
    /\ op = NoCall
    /\ arg = 0
    /\ pre = heap
    /\ ret = NoRet
    /\ prev = [op |-> NoCall, arg |-> 0, ret |-> NoRet]

\* The caller runs `call` on table t and keeps a table it gets back as its
\* data (trusted_data = clean_data(raw_data); filter_by_month(trusted_data)).
Return(call, t, out) ==
    /\ calls < MaxCalls
    /\ calls' = calls + 1
    /\ prev' = [op |-> op, arg |-> arg, ret |-> ret]
    /\ op' = call
    /\ arg' = t
    /\ pre' = heap
    /\ heap' = out.heap
    /\ ret' = out.ret
    /\ data' = IF out.ret.kind = "table" THEN out.ret.id ELSE data
    /\ UNCHANGED sheet

CleanData ==
    Return(Call("clean_data", <<>>, <<>>, <<>>), data, clean_data(heap, data))

FilterByMonth ==
    \E month \in Months :
        Return(Call("filter_by_month", month, <<>>, <<>>), data,
               filter_by_month(heap, data, month))

FilterByCategoricalValue ==
    \E v \in CategoryValues :
        Return(Call("filter_data_by_categorical_value", <<>>, v, <<>>), data,
               filter_data_by_categorical_value(heap, data, v))

CalculateTotal ==
    \E c \in ColumnNames :
        \E out \in calculate_total_expenses_per_column(heap, data, c) :
            Return(Call("calculate_total_expenses_per_column", <<>>, <<>>, c), data, out)

\* A tool is given no list and gives back a dict or raises: the lists it
\* made (raw_data, trusted_data, filtered_data) are gone when it returns.
Locals(out) == Outcome(heap, out.ret)

AnalyzeItemsForCategory ==
    \E month \in Months, v \in CategoryValues :
        \E out \in analyze_expenses_per_items_for_category_column(EmptyHeap, sheet, month, v) :
            Return(Call("analyze_expenses_per_items_for_category_column", month, v, Item),
                   0, Locals(out))

\* The functions of the module, called one after the other on the caller's table.
Next ==
    \/ CleanData
    \/ FilterByMonth
    \/ FilterByCategoricalValue
    \/ CalculateTotal

Spec == Init /\ [][Next]_vars

\* The agent's tool that filters by category: it reads the sheet anew.
NextTools == AnalyzeItemsForCategory

ToolSpec == Init /\ [][NextTools]_vars

\* ------------------------------------------------- what the claims speak of
\* The rows of the table the last call was given, as the call found them.
ArgRows == Content(pre, arg)

\* The rows of the table the last call gave back.
RetRows == Content(heap, ret.id)

Has(row, x) == \E i \in 1..Len(row) : row[i] = x

\* The least position of x in row.
FirstAt(row, x) == CHOOSE i \in 1..Len(row) : row[i] = x /\ \A j \in 1..(i - 1) : row[j] # x

\* The j-th smallest member of a set of numbers.
Nth(S, j) == CHOOSE i \in S : Cardinality({k \in S : k < i}) = j - 1

Blank(cell) == \A i \in 1..Len(cell) : cell[i] \in {" ", "\t"}

\* The sum of the floats f[i], i in S.
RECURSIVE SumOf(_, _)
SumOf(S, f) ==
    IF S = {} THEN Num(0)
    ELSE LET i == CHOOSE i \in S : TRUE IN Add(f[i], SumOf(S \ {i}, f))

Called(name) == op.name = name

\* ---- clean_data
\* The positions of the rows clean_data keeps: not empty, some cell not blank.
Kept == {i \in 1..Len(ArgRows) : ArgRows[i] # <<>> /\ \E c \in 1..Len(ArgRows[i]) : ~Blank(ArgRows[i][c])}

\* C6: clean_data returns the non-empty rows that have a non-blank cell, in
\* their order and with their length, each empty cell replaced by "N/A" and
\* every other cell as it was; a blank row never comes out, and no rows in
\* gives no rows out.
CleanKeepsAndFills ==
    Called("clean_data") =>
        /\ ret.kind = "table"
        /\ Len(RetRows) = Cardinality(Kept)
        /\ \A j \in 1..Len(RetRows) :
              LET src == ArgRows[Nth(Kept, j)]
                  out == RetRows[j]
              IN  /\ Len(out) = Len(src)
                  /\ \A c \in 1..Len(src) :
                        out[c] = (IF src[c] = <<>> THEN NA ELSE src[c])
                  /\ out # <<>>
                  /\ \E c \in 1..Len(out) : ~Blank(out[c])
        /\ (ArgRows = <<>> => RetRows = <<>>)

\* clean_data has dropped an empty row and a blank row and filled a cell.
CleanWitness ==
    /\ Called("clean_data")
    /\ \E i \in 1..Len(ArgRows) : ArgRows[i] = <<>>
    /\ \E i \in 1..Len(ArgRows) : ArgRows[i] # <<>> /\ i \notin Kept
    /\ \E j \in 1..Len(RetRows) : Has(RetRows[j], NA) /\ ~Has(ArgRows[Nth(Kept, j)], NA)

\* C5: clean_data of what clean_data gave back gives back the same rows.
CleanIdempotent ==
    (Called("clean_data") /\ prev.op.name = "clean_data" /\ arg = prev.ret.id) =>
        /\ ret.kind = "table"
        /\ RetRows = ArgRows

\* The second of two clean_data calls, the first of which dropped and filled.
CleanTwiceWitness ==
    /\ Called("clean_data") /\ prev.op.name = "clean_data" /\ arg = prev.ret.id
    /\ Len(ArgRows) >= 2
    /\ Len(ArgRows) < Len(sheet)
    /\ \E j \in 1..Len(ArgRows) : Has(ArgRows[j], NA)

\* ---- filter_by_month
\* The date cell has the month at offsets 3 and 4 and 2025 at offsets 6 to 9.
DateIs(cell, month) ==
    /\ Len(cell) >= 10
    /\ Len(month) = 2
    /\ cell[4] = month[1] /\ cell[5] = month[2]
    /\ <<cell[7], cell[8], cell[9], cell[10]>> = <<"2", "0", "2", "5">>

\* The positions of the data rows of the month.
OfMonth(dateAt, month) ==
    {i \in 2..Len(ArgRows) : Len(ArgRows[i]) >= dateAt /\ DateIs(ArgRows[i][dateAt], month)}

\* C4: with "Data" in the header, filter_by_month returns the header and
\* after it exactly the data rows, in their order, whose date cell exists
\* and holds the month and 2025; a date cell under 10 characters is left out.
MonthFilterExact ==
    (Called("filter_by_month") /\ ArgRows # <<>> /\ Has(ArgRows[1], Data)) =>
        /\ ret.kind = "table"
        /\ heap.tables[ret.id] =
              <<pre.tables[arg][1]>> \o
              [j \in 1..Cardinality(OfMonth(FirstAt(ArgRows[1], Data), op.month)) |->
                  pre.tables[arg][Nth(OfMonth(FirstAt(ArgRows[1], Data), op.month), j)]]
        /\ \A i \in 2..Len(RetRows) : Len(RetRows[i][FirstAt(ArgRows[1], Data)]) >= 10

\* filter_by_month has kept one row and left out one whose date cell is
\* under 10 characters though its offsets 3 and 4 hold the month.
MonthFilterWitness ==
    /\ Called("filter_by_month") /\ ret.kind = "table"
    /\ Len(RetRows) = 2
    /\ Len(ArgRows) = 3
    /\ \E i \in 2..3 : /\ Len(ArgRows[i]) >= 1
                       /\ Len(ArgRows[i][1]) \in 1..9
                       /\ Slice(ArgRows[i][1], 3, 5) = op.month

\* ---- calculate_total_expenses_per_column
\* The call was given a table whose header names the group and amount columns.
CalcApplies ==
    /\ Called("calculate_total_expenses_per_column")
    /\ ArgRows # <<>>
    /\ Has(ArgRows[1], op.column)
    /\ Has(ArgRows[1], Valor_total)

GroupAt == FirstAt(ArgRows[1], op.column)
AmountAt == FirstAt(ArgRows[1], Valor_total)

\* The positions of the data rows long enough to cover both columns.
Included == {i \in 2..Len(ArgRows) : Len(ArgRows[i]) >= GroupAt /\ Len(ArgRows[i]) >= AmountAt}

KeyOf(i) == ArgRows[i][GroupAt]
WithKey(k) == {i \in Included : KeyOf(i) = k}

\* What is left of the amount cell of row i after the clean-up.
Residue(i) == CleanAmount(ArgRows[i][AmountAt])

\* The parsed amount of each included row.
Parsed == [i \in Included |-> AmountOf(Residue(i))]

Totals == [j \in 1..Len(ret.items) |-> ret.items[j][2]]

\* C1: the keys of the mapping are exactly the raw group cells of the rows
\* long enough to cover both columns, each key once, its value the sum of
\* the parsed amounts of its rows; shorter rows add nothing, so the totals
\* add up to the parsed amounts of the included rows.
TotalsPerKey ==
    CalcApplies =>
        /\ ret.kind = "dict"
        /\ {ret.items[j][1] : j \in 1..Len(ret.items)} = {KeyOf(i) : i \in Included}
        /\ Len(ret.items) = Cardinality({KeyOf(i) : i \in Included})
        /\ \A j \in 1..Len(ret.items) :
              ret.items[j][2] = SumOf(WithKey(ret.items[j][1]), Parsed)
        /\ SumOf(1..Len(ret.items), Totals) = SumOf(Included, Parsed)

\* Two rows of one key, each with an amount, have been added up.
TotalsWitness ==
    /\ CalcApplies
    /\ \E j \in 1..Len(ret.items) :
          /\ Cardinality(WithKey(ret.items[j][1])) = 2
          /\ \A i \in WithKey(ret.items[j][1]) : Parsed[i].val > 0
    /\ calls = 1

\* The first row of key k.
FirstSeen(k) == Nth(WithKey(k), 1)

\* a >= b and a == b of floats.
AtLeast(a, b) == ~a.nan /\ ~b.nan /\ a.val >= b.val
Same(a, b) == ~a.nan /\ ~b.nan /\ a.val = b.val

\* C2: the mapping is in non-increasing order of total, and keys of equal
\* total are in the order the rows first showed them.
SortedStable ==
    (CalcApplies /\ ret.kind = "dict") =>
        \A j \in 1..Len(ret.items) : \A k \in (j + 1)..Len(ret.items) :
            /\ AtLeast(ret.items[j][2], ret.items[k][2])
            /\ Same(ret.items[j][2], ret.items[k][2]) =>
                   FirstSeen(ret.items[j][1]) < FirstSeen(ret.items[k][1])

\* The included rows whose residue is a decimal, with a sign or without.
Decimal == {i \in Included : IsDecimal(Unsigned(Residue(i)))}

Value == [i \in Decimal |-> FloatVal(Residue(i))]

\* C3: no amount cell makes the call raise; a row whose residue is no
\* decimal (the empty residue and "N/A" among them) adds 0.0 to the total of
\* its key, which is the sum of the rows of the key that are decimals, and
\* the rows after it are still counted.
NoDecimalIsZero ==
    CalcApplies =>
        /\ ret.kind = "dict"
        /\ \A i \in Included \ Decimal :
              /\ \E j \in 1..Len(ret.items) :
                    /\ ret.items[j][1] = KeyOf(i)
                    /\ ret.items[j][2] = SumOf(WithKey(KeyOf(i)) \cap Decimal, Value)
              /\ \A n \in Included :
                    n > i => \E j \in 1..Len(ret.items) : ret.items[j][1] = KeyOf(n)
        /\ \A i \in Included : Residue(i) \in {<<>>, NA} => i \notin Decimal

\* ---- missing columns
\* The last call was given a table whose header lacks a column it looks up.
MissingColumn ==
    /\ arg # 0
    /\ ArgRows # <<>>
    /\ \/ Called("filter_by_month") /\ ~Has(ArgRows[1], Data)
       \/ Called("filter_data_by_categorical_value") /\ ~Has(ArgRows[1], Categoria)
       \/ /\ Called("calculate_total_expenses_per_column")
          /\ ~Has(ArgRows[1], op.column) \/ ~Has(ArgRows[1], Valor_total)

\* C7: a call whose header lacks a column it looks up raises, gives back no
\* table and no mapping, and has touched no row, whatever the rows hold.
MissingColumnRaises ==
    MissingColumn =>
        /\ ret.kind = "error"
        /\ ret.exc = "ValueError"
        /\ ret.items = <<>>
        /\ heap = pre
        /\ data = arg

\* The aggregation raised on a header without "Valor_total", over rows that
\* hold amounts, after the categorical filter raised on the same table.
MissingColumnWitness ==
    /\ MissingColumn
    /\ Called("calculate_total_expenses_per_column")
    /\ Has(ArgRows[1], op.column)
    /\ Len(ArgRows) = 3
    /\ \A i \in 2..3 : Len(ArgRows[i]) = 4
    /\ prev.op.name = "filter_data_by_categorical_value"
    /\ prev.ret.kind = "error"

\* ---- no mutation by the cleaner and the filters
\* C9: after clean_data, filter_by_month or filter_data_by_categorical_value
\* every list that was there holds what it held, the table passed in among
\* them, and a table given back is a new list.
FiltersLeaveInput ==
    (Called("clean_data") \/ Called("filter_by_month")
        \/ Called("filter_data_by_categorical_value")) =>
        /\ \A t \in 1..Len(pre.tables) : heap.tables[t] = pre.tables[t]
        /\ \A r \in 1..Len(pre.rows) : heap.rows[r] = pre.rows[r]
        /\ ret.kind = "table" => ret.id \notin 1..Len(pre.tables)

\* A filter gave back fewer rows than it was given, after clean_data had
\* dropped a row and filled a cell.
FiltersWitness ==
    /\ Called("filter_by_month") \/ Called("filter_data_by_categorical_value")
    /\ ret.kind = "table"
    /\ Len(RetRows) < Len(ArgRows)
    /\ prev.op.name = "clean_data"
    /\ Len(ArgRows) < Len(sheet)
    /\ \E i \in 1..Len(ArgRows) : Has(ArgRows[i], NA)

\* ---- the same aggregation twice
\* "R$", a space or none, digits and "." for thousands, ",", two digits.
Documented(cell) ==
    /\ Len(cell) >= 6
    /\ StartsWith(cell, Currency)
    /\ cell[Len(cell) - 2] = ","
    /\ cell[Len(cell) - 1] \in Digits /\ cell[Len(cell)] \in Digits
    /\ cell[Len(cell) - 3] \in Digits
    /\ \A i \in 3..(Len(cell) - 3) : cell[i] \in Digits \cup {"."} \/ (i = 3 /\ cell[i] = " ")

\* The same aggregation, on the sheet's table, twice in a row, every amount
\* cell of the sheet in the documented format.
SameCallTwice ==
    /\ Called("calculate_total_expenses_per_column")
    /\ prev.op = op
    /\ prev.arg = arg
    /\ arg = 1
    /\ ret.kind = "dict"
    /\ \A i \in 2..Len(sheet) :
          Len(sheet[i]) >= FirstAt(sheet[1], Valor_total) /\
          Documented(sheet[i][FirstAt(sheet[1], Valor_total)])

\* C10: the same aggregation twice in a row on the same table gives the same
\* mapping both times.
RepeatableAggregation == SameCallTwice => ret = prev.ret

\* ---- analyze_expenses_per_items_for_category_column
\* The sheet as clean_data leaves it, by value.
Cleaned ==
    LET kept == SelectSeq(sheet, KeepRow)
    IN  [i \in 1..Len(kept) |-> CleanRow(kept[i])]

ToolApplies ==
    /\ Called("analyze_expenses_per_items_for_category_column")
    /\ Cleaned # <<>>
    /\ \A name \in {Data, Categoria, Item, Valor_total} : Has(Cleaned[1], name)

At(name) == FirstAt(Cleaned[1], name)

\* The cleaned data rows of the month and 2025 whose category is the value.
Chosen ==
    {i \in 2..Len(Cleaned) :
        /\ Len(Cleaned[i]) >= At(Data)
        /\ DateIs(Cleaned[i][At(Data)], op.month)
        /\ Len(Cleaned[i]) >= At(Categoria)
        /\ Cleaned[i][At(Categoria)] = op.value}

\* Those of them the aggregation can read.
Counted == {i \in Chosen : Len(Cleaned[i]) >= At(Item) /\ Len(Cleaned[i]) >= At(Valor_total)}

Amount == [i \in Counted |-> AmountOf(CleanAmount(Cleaned[i][At(Valor_total)]))]

\* C8: the tool gives the totals per "Item" of exactly the cleaned rows of
\* the month and 2025 whose "Categoria" cell equals the value as it is; a
\* row failing either filter adds to no total.
ItemsOfCategory ==
    ToolApplies =>
        /\ ret.kind = "dict"
        /\ {ret.items[j][1] : j \in 1..Len(ret.items)} = {Cleaned[i][At(Item)] : i \in Counted}
        /\ Len(ret.items) = Cardinality({Cleaned[i][At(Item)] : i \in Counted})
        /\ \A j \in 1..Len(ret.items) :
              ret.items[j][2] =
                  SumOf({i \in Counted : Cleaned[i][At(Item)] = ret.items[j][1]}, Amount)

\* The tool counted a row and left out a row of the month whose category is
\* the value with a space before it.
ItemsWitness ==
    /\ ToolApplies /\ ret.kind = "dict"
    /\ Cardinality(Counted) = 1
    /\ Len(ret.items) = 1 /\ ret.items[1][2].val > 0
    /\ \E i \in 2..Len(Cleaned) :
          /\ i \notin Chosen
          /\ Len(Cleaned[i]) >= At(Categoria)
          /\ DateIs(Cleaned[i][At(Data)], op.month)
          /\ Strip(Cleaned[i][At(Categoria)]) = op.value
====
